---- MODULE Spec2Model ----
(***************************************************************************)
(* FitPal nutritionist agent: the conversation state, the step functions   *)
(* (graph nodes), the routers and the per-turn step loop of one thread.    *)
(*                                                                         *)
(* Python's None is written per value type, because TLC compares values    *)
(* of one type only: None for strings (ids, dates, action tags), NoneDict  *)
(* for a dict-valued field, NoneNum for an optional float.                 *)
(***************************************************************************)
EXTENDS Integers, Sequences, FiniteSets, TLC

\* ------------------------------------------------------------------ bounds
MaxItems == 2
MaxTurns == 2

\* Records of the checkpoint store the model keeps per thread (the newest).
Retained == 2

\* Rows other conversation threads write to daily_logs.
MaxOtherRows == 1

\* Largest amount, in grams, the macro computation is run on.
MaxAmount == 120

\* ------------------------------------------------------------ value domains
None == "None"
NoneDict == <<>>
NoneNum == -1

ActionType == {"LOG_FOOD", "QUERY_FOOD_INFO", "QUERY_DAILY_STATS", "CHITCHAT"}

SelectionStatus == {"SELECTED", "NO_MATCH", "AMBIGUOUS", "ESTIMATED"}

GraphAction ==
    {"LOG_FOOD", "QUERY_FOOD_INFO", "QUERY_DAILY_STATS", "CHITCHAT",
     "SELECTED", "NO_MATCH", "AMBIGUOUS", "LOGGED"}

\* Food items the intent oracle can extract (SingleFoodItem.model_dump()).
SingleFoodItem ==
    { [food_name |-> "chicken", amount |-> 150, unit |-> "g",
       original_text |-> "150g chicken"],
      [food_name |-> "rice", amount |-> 225, unit |-> "g",
       original_text |-> "225g rice"] }

ItemSeqs == UNION { [1..n -> SingleFoodItem] : n \in 0..MaxItems }

\* Calendar days; DateOrd gives their order. The process runs on one of
\* Days: date.today() and datetime.now() read the clock.
Days == {"2023-10-28", "2023-10-29"}

DateOrd ==
    [d \in {"2023-10-26", "2023-10-27", "2023-10-28", "2023-10-29"} |->
        CASE d = "2023-10-26" -> 1
          [] d = "2023-10-27" -> 2
          [] d = "2023-10-28" -> 3
          [] d = "2023-10-29" -> 4]

\* The date fields of a parsed event: none, a target date, a range,
\* a range with a target date, one bound only.
DateAnswers ==
    { [target_date |-> None, start_date |-> None, end_date |-> None],
      [target_date |-> "2023-10-27", start_date |-> None, end_date |-> None],
      [target_date |-> None, start_date |-> "2023-10-26",
       end_date |-> "2023-10-27"],
      [target_date |-> "2023-10-27", start_date |-> "2023-10-26",
       end_date |-> "2023-10-27"],
      [target_date |-> None, start_date |-> "2023-10-26", end_date |-> None] }

\* Answers of the intent oracle (structured output FoodIntakeEvent).
FoodIntakeEvent ==
    { [action |-> a, items |-> i, target_date |-> d.target_date,
       start_date |-> d.start_date, end_date |-> d.end_date] :
      a \in ActionType, i \in ItemSeqs, d \in DateAnswers }

\* food_items table: per-100g values in hundredths.
FoodItem ==
    [id \in {"165", "275"} |->
        IF id = "165"
        THEN [name |-> "Chicken breast", calories |-> 16500, protein |-> 3100,
              fat |-> 360, carbs |-> 0]
        ELSE [name |-> "Rice, white", calories |-> 13033, protein |-> 269,
              fat |-> 28, carbs |-> 2817]]

\* Answers of the catalog search: candidates with id and name only.
SearchResult ==
    { <<>>,
      << [id |-> "165", name |-> "Chicken breast"] >>,
      << [id |-> "165", name |-> "Chicken breast"],
         [id |-> "275", name |-> "Rice, white"] >> }

\* Answers of the selection oracle (structured output FoodSelectionResult).
\* "999" is an id the oracle makes up: no candidate and no table row has it.
FoodSelectionResult ==
    { [status |-> "SELECTED", food_id |-> f, estimated_calories |-> NoneNum,
       estimated_protein |-> NoneNum, estimated_carbs |-> NoneNum,
       estimated_fat |-> NoneNum] : f \in {None, "165", "999"} }
    \cup
    { [status |-> s, food_id |-> None, estimated_calories |-> NoneNum,
       estimated_protein |-> NoneNum, estimated_carbs |-> NoneNum,
       estimated_fat |-> NoneNum] : s \in {"NO_MATCH", "AMBIGUOUS"} }
    \cup
    { [status |-> "ESTIMATED", food_id |-> None, estimated_calories |-> c,
       estimated_protein |-> 1000, estimated_carbs |-> 2000,
       estimated_fat |-> 500] : c \in {NoneNum, 20000} }

\* ------------------------------------------------------------------- state
VARIABLES
    state,       \* AgentState of the thread
    pc,          \* cursor: the node to run next, or idle / END / failed
    daily_logs,  \* rows of the daily_logs table
    turn,        \* number of turns started
    steps,       \* nodes completed in the current turn, in order
    parsed,      \* items the intent parser produced in the current turn
    intent,      \* the action the intent parser produced in the current turn
    removed,     \* items removed from pending_food_items in the current turn
    missed,      \* of those, the ones removed without a log row
    checkpoints, \* the thread's newest Retained records in the checkpoint
                 \* store, oldest first
    calls,       \* collaborator calls that returned in the last step
    clock,       \* the calendar day of the running process
    base_logs,   \* rows in daily_logs when the caller first sent this input
    solo,        \* the AgentState the thread would have with no other thread
    solo_logs    \* the daily_logs table holding this thread's rows only

vars ==
    <<state, pc, daily_logs, turn, steps, parsed, intent, removed, missed,
      checkpoints, calls, clock, base_logs, solo, solo_logs>>

today == clock

Nodes ==
    {"input_parser", "food_search", "agent_selection", "calculate_log",
     "stats_lookup", "response"}

END == "__end__"

\* The state of a thread that has not run yet: every state.get() default.
\* current_estimation is the key agent_selection_node writes
\* (selection_node.py:62); the AgentState class does not declare it.
AgentState ==
    [messages |-> <<>>,
     pending_food_items |-> <<>>,
     daily_log_report |-> <<>>,
     current_date |-> None,
     start_date |-> None,
     end_date |-> None,
     last_action |-> None,
     search_results |-> <<>>,
     selected_food_id |-> None,
     processing_results |-> <<>>,
     current_estimation |-> NoneDict]

\* Field-by-field merge of a step's partial update: messages are
\* concatenated, every other field of the update replaces the old value.
Merge(s, u) ==
    [k \in DOMAIN s |->
        IF k \in DOMAIN u
        THEN IF k = "messages" THEN s[k] \o u[k] ELSE u[k]
        ELSE s[k]]

\* ----------------------------------------------------------------- routers
route_parser_stats_to_search(s) ==
    IF s.last_action \in {"LOG_FOOD", "QUERY_FOOD_INFO", "QUERY_DAILY_STATS"}
    THEN "food_search"
    ELSE "response"

route_parser_info_to_response(s) ==
    IF s.last_action = "LOG_FOOD" THEN "food_search"
    ELSE IF s.last_action = "QUERY_DAILY_STATS" THEN "stats_lookup"
    ELSE "response"

route_parser(s) ==
    IF s.last_action \in {"LOG_FOOD", "QUERY_FOOD_INFO"} THEN "food_search"
    ELSE IF s.last_action = "QUERY_DAILY_STATS" THEN "stats_lookup"
    ELSE "response"

route_after_selection_by_food_id(s) ==
    IF s.selected_food_id # None THEN "calculate_log" ELSE "response"

route_after_selection_estimated_too(s) ==
    IF s.last_action \in {"SELECTED", "ESTIMATED"} THEN "calculate_log"
    ELSE "response"

route_after_selection(s) ==
    IF s.last_action = "SELECTED" THEN "calculate_log" ELSE "response"

route_after_calculate_inverted(s) ==
    IF s.pending_food_items # <<>> THEN "response" ELSE "food_search"

\* Variant that sends the next item straight to the selection.
route_after_calculate_skips_search(s) ==
    IF s.pending_food_items # <<>> THEN "agent_selection" ELSE "response"

route_after_calculate(s) ==
    IF s.pending_food_items # <<>> THEN "food_search" ELSE "response"

\* ------------------------------------------------------------------- nodes
\* Variant that does not reset processing_results.
input_parser_node_at_keeps_results(s, result, day) ==
    [pending_food_items |-> result.items,
     last_action |-> result.action,
     current_date |-> IF result.target_date # None
                         /\ ~(result.start_date # None /\ result.end_date # None)
                      THEN result.target_date ELSE day,
     start_date |-> IF result.start_date # None /\ result.end_date # None
                    THEN result.start_date ELSE None,
     end_date |-> IF result.start_date # None /\ result.end_date # None
                  THEN result.end_date ELSE None]

input_parser_node_at(s, result, day) ==
    LET updates ==
            [pending_food_items |-> result.items,
             last_action |-> result.action,
             processing_results |-> <<>>]
        dates ==
            IF result.start_date # None /\ result.end_date # None
            THEN [start_date |-> result.start_date,
                  end_date |-> result.end_date,
                  current_date |-> day]
            ELSE IF result.target_date # None
            THEN [current_date |-> result.target_date,
                  start_date |-> None,
                  end_date |-> None]
            ELSE [current_date |-> day,
                  start_date |-> None,
                  end_date |-> None]
    IN  updates @@ dates

input_parser_node(s, result) == input_parser_node_at(s, result, today)

\* Variant that adds the answer to the candidates already in the state.
food_search_node_accumulates(s, results) ==
    IF s.pending_food_items = <<>>
    THEN [search_results |-> <<>>]
    ELSE [search_results |-> s.search_results \o results]

food_search_node(s, results) ==
    IF s.pending_food_items = <<>>
    THEN [search_results |-> <<>>]
    ELSE [search_results |-> results]

\* Line 40 of the selection node indexes pending_items[0] without a guard
\* when it builds the oracle's context: IndexError on an empty list.
selection_raises(s) ==
    /\ Len(s.search_results) # 1
    /\ s.pending_food_items = <<>>

orzero_keeps_missing(x) == x

orzero(x) == IF x = NoneNum \/ x = 0 THEN 0 ELSE x

\* Variant that records the message but not the item it is about.
fail_item_without_item(current_item, text) ==
    [food_name |-> "",
     amount |-> 0,
     unit |-> "",
     original_text |-> "",
     status |-> "FAILED",
     message |-> <<text, current_item.food_name>>]

\* {**current_item, "status": "FAILED", "message": ...}
fail_item(current_item, text) ==
    [food_name |-> current_item.food_name,
     amount |-> current_item.amount,
     unit |-> current_item.unit,
     original_text |-> current_item.original_text,
     status |-> "FAILED",
     message |-> <<text, current_item.food_name>>]

agent_selection_node_asks_anyway(s, result) ==
    IF result.status = "SELECTED" /\ result.food_id # None
    THEN [selected_food_id |-> result.food_id,
          last_action |-> "SELECTED"]
    ELSE [selected_food_id |-> None,
          last_action |-> "NO_MATCH"]

agent_selection_node(s, result) ==
    LET search_results == s.search_results
        pending_items == s.pending_food_items
        current_item == IF pending_items # <<>> THEN pending_items[1] ELSE <<>>
        processing_results == s.processing_results
        no_match(text) ==
            [selected_food_id |-> None,
             last_action |-> "NO_MATCH",
             processing_results |->
                 Append(processing_results, fail_item(current_item, text))]
    IN  IF Len(search_results) = 1
        THEN [selected_food_id |-> search_results[1].id,
              last_action |-> "SELECTED"]
        ELSE IF result.status = "ESTIMATED"
        THEN [selected_food_id |-> None,
              last_action |-> "ESTIMATED",
              current_estimation |->
                  [calories |-> orzero(result.estimated_calories),
                   protein |-> orzero(result.estimated_protein),
                   carbs |-> orzero(result.estimated_carbs),
                   fat |-> orzero(result.estimated_fat)]]
        ELSE IF result.status = "SELECTED" /\ result.food_id = None
        THEN no_match("Could not select match for")
        ELSE IF result.status = "AMBIGUOUS"
        THEN no_match("Ambiguous match for")
        ELSE IF result.status = "NO_MATCH"
        THEN no_match("No appropriate match found for")
        ELSE [selected_food_id |-> result.food_id,
              last_action |-> result.status]

\* round(x, 2) of n/d hundredths: nearest, ties to even.
round2(n, d) ==
    LET q == n \div d
        r == n % d
    IN  IF 2 * r < d THEN q
        ELSE IF 2 * r > d THEN q + 1
        ELSE IF q % 2 = 0 THEN q ELSE q + 1

\* Variant that rounds to whole numbers instead of two decimals.
calculate_food_macros_whole_numbers(food_id, amount_g) ==
    IF food_id \notin DOMAIN FoodItem
    THEN [error |-> "not found"]
    ELSE LET food == FoodItem[food_id]
         IN  [name |-> food.name,
              amount_g |-> amount_g,
              calories |-> 100 * round2(food.calories * amount_g, 10000),
              protein |-> 100 * round2(food.protein * amount_g, 10000),
              fat |-> 100 * round2(food.fat * amount_g, 10000),
              carbs |-> 100 * round2(food.carbs * amount_g, 10000)]

calculate_food_macros(food_id, amount_g) ==
    IF food_id \notin DOMAIN FoodItem
    THEN [error |-> "not found"]
    ELSE LET food == FoodItem[food_id]
         IN  [name |-> food.name,
              amount_g |-> amount_g,
              calories |-> round2(food.calories * amount_g, 100),
              protein |-> round2(food.protein * amount_g, 100),
              fat |-> round2(food.fat * amount_g, 100),
              carbs |-> round2(food.carbs * amount_g, 100)]

create_log_entry(session, food_id, amount_g, macros, timestamp, original_text) ==
    Append(session,
           [id |-> Len(session) + 1,
            food_id |-> food_id,
            amount_g |-> amount_g,
            calories |-> macros.calories,
            protein |-> macros.protein,
            carbs |-> macros.carbs,
            fat |-> macros.fat,
            timestamp |-> timestamp,
            meal_type |-> None,
            original_text |-> original_text])

get_logs_by_date(session, target_date) ==
    SelectSeq(session, LAMBDA log : log.timestamp = target_date)

get_logs_by_date_range(session, start_date, end_date) ==
    SelectSeq(session,
              LAMBDA log : /\ DateOrd[log.timestamp] >= DateOrd[start_date]
                           /\ DateOrd[log.timestamp] <= DateOrd[end_date])

\* state.get("consumed_at"): no node writes this key and AgentState has no
\* such field, so the lookup yields None.
consumed_at(s) == None

\* The macro lookup ran and found the food: the branch that logs.
logs_entry(s) ==
    /\ s.pending_food_items # <<>>
    /\ s.selected_food_id # None
    /\ "error" \notin DOMAIN calculate_food_macros(
                         s.selected_food_id, s.pending_food_items[1].amount)

\* Variant that logs a 100 g portion whatever the item's amount.
calculate_log_session_per_100g(s, session) ==
    IF logs_entry(s)
    THEN LET current_item == s.pending_food_items[1]
         IN  create_log_entry(session, s.selected_food_id, 100,
                              calculate_food_macros(s.selected_food_id, 100),
                              today, current_item.original_text)
    ELSE session

\* The daily_logs table after calculate_log_node ran on state s.
calculate_log_session(s, session) ==
    IF logs_entry(s)
    THEN LET current_item == s.pending_food_items[1]
             macros == calculate_food_macros(s.selected_food_id,
                                             current_item.amount)
             timestamp == IF consumed_at(s) # None THEN consumed_at(s)
                          ELSE today
         IN  create_log_entry(session, s.selected_food_id, current_item.amount,
                              macros, timestamp, current_item.original_text)
    ELSE session

\* Variant that keeps the head item when nothing was logged.
calculate_log_node_keeps_unlogged(s, session) ==
    IF s.pending_food_items = <<>>
    THEN <<>>
    ELSE [pending_food_items |->
              IF logs_entry(s) THEN Tail(s.pending_food_items)
              ELSE s.pending_food_items,
          daily_log_report |->
              IF logs_entry(s) THEN <<>> ELSE s.daily_log_report,
          last_action |-> "LOGGED",
          selected_food_id |-> None,
          processing_results |-> s.processing_results]

\* Variant that removes the last item instead of the head.
calculate_log_node_pops_last(s, session) ==
    IF s.pending_food_items = <<>>
    THEN <<>>
    ELSE [pending_food_items |->
              SubSeq(s.pending_food_items, 1, Len(s.pending_food_items) - 1),
          daily_log_report |->
              IF logs_entry(s) THEN <<>> ELSE s.daily_log_report,
          last_action |-> "LOGGED",
          selected_food_id |-> None,
          processing_results |-> s.processing_results]

\* Variant that records no LOGGED entry.
calculate_log_node_no_result(s, session) ==
    IF s.pending_food_items = <<>>
    THEN <<>>
    ELSE [pending_food_items |-> Tail(s.pending_food_items),
          daily_log_report |->
              IF logs_entry(s) THEN <<>> ELSE s.daily_log_report,
          last_action |-> "LOGGED",
          selected_food_id |-> None,
          processing_results |-> s.processing_results]

calculate_log_node_reports_row_id(s, session) ==
    IF s.pending_food_items = <<>>
    THEN <<>>
    ELSE LET current_item == s.pending_food_items[1]
             macros == calculate_food_macros(s.selected_food_id,
                                             current_item.amount)
             result_item ==
                 [food_name |-> current_item.food_name,
                  amount |-> current_item.amount,
                  unit |-> current_item.unit,
                  original_text |-> current_item.original_text,
                  status |-> "LOGGED",
                  message |-> <<"Logged", current_item.food_name,
                                macros.calories, Len(session) + 1>>]
         IN  [pending_food_items |-> Tail(s.pending_food_items),
              daily_log_report |->
                  IF logs_entry(s) THEN <<>> ELSE s.daily_log_report,
              last_action |-> "LOGGED",
              selected_food_id |-> None,
              processing_results |->
                  IF logs_entry(s)
                  THEN Append(s.processing_results, result_item)
                  ELSE s.processing_results]

\* Variant that empties the report when nothing was logged.
calculate_log_node_drops_report(s, session) ==
    IF s.pending_food_items = <<>>
    THEN <<>>
    ELSE LET current_item == s.pending_food_items[1]
             macros == calculate_food_macros(s.selected_food_id,
                                             current_item.amount)
             result_item ==
                 [food_name |-> current_item.food_name,
                  amount |-> current_item.amount,
                  unit |-> current_item.unit,
                  original_text |-> current_item.original_text,
                  status |-> "LOGGED",
                  message |-> <<"Logged", current_item.food_name,
                                macros.calories>>]
         IN  [pending_food_items |-> Tail(s.pending_food_items),
              daily_log_report |-> <<>>,
              last_action |-> "LOGGED",
              selected_food_id |-> None,
              processing_results |->
                  IF logs_entry(s)
                  THEN Append(s.processing_results, result_item)
                  ELSE s.processing_results]

\* Variant that returns the new outcome alone, without the earlier ones.
calculate_log_node_only_last_result(s, session) ==
    IF s.pending_food_items = <<>>
    THEN <<>>
    ELSE LET current_item == s.pending_food_items[1]
             macros == calculate_food_macros(s.selected_food_id,
                                             current_item.amount)
             result_item ==
                 [food_name |-> current_item.food_name,
                  amount |-> current_item.amount,
                  unit |-> current_item.unit,
                  original_text |-> current_item.original_text,
                  status |-> "LOGGED",
                  message |-> <<"Logged", current_item.food_name,
                                macros.calories>>]
         IN  [pending_food_items |-> Tail(s.pending_food_items),
              daily_log_report |->
                  IF logs_entry(s) THEN <<>> ELSE s.daily_log_report,
              last_action |-> "LOGGED",
              selected_food_id |-> None,
              processing_results |->
                  IF logs_entry(s)
                  THEN << result_item >>
                  ELSE s.processing_results]

calculate_log_node(s, session) ==
    IF s.pending_food_items = <<>>
    THEN <<>>
    ELSE LET current_item == s.pending_food_items[1]
             macros == calculate_food_macros(s.selected_food_id,
                                             current_item.amount)
             updated_report ==
                 IF consumed_at(s) # None
                 THEN get_logs_by_date(calculate_log_session(s, session),
                                       consumed_at(s))
                 ELSE <<>>
             result_item ==
                 [food_name |-> current_item.food_name,
                  amount |-> current_item.amount,
                  unit |-> current_item.unit,
                  original_text |-> current_item.original_text,
                  status |-> "LOGGED",
                  message |-> <<"Logged", current_item.food_name,
                                macros.calories>>]
         IN  [pending_food_items |-> Tail(s.pending_food_items),
              daily_log_report |->
                  IF logs_entry(s) THEN updated_report
                  ELSE s.daily_log_report,
              last_action |-> "LOGGED",
              selected_food_id |-> None,
              processing_results |->
                  IF logs_entry(s)
                  THEN Append(s.processing_results, result_item)
                  ELSE s.processing_results]

\* Variant that always asks for the single date.
stats_lookup_node_always_by_date(s, session) ==
    [daily_log_report |-> get_logs_by_date(session, s.current_date)]

stats_lookup_node(s, session) ==
    LET logs ==
            IF s.start_date # None /\ s.end_date # None
            THEN get_logs_by_date_range(session, s.start_date, s.end_date)
            ELSE get_logs_by_date(session, s.current_date)
    IN  [daily_log_report |-> logs]

\* Variant that puts every field in the context, whatever the action.
build_context_everything(s) ==
    [last_action |-> s.last_action,
     processing_results |-> s.processing_results,
     daily_log_report |-> s.daily_log_report,
     start_date |-> s.start_date,
     end_date |-> s.end_date]

\* The selective context of the reply: the fields relevant to last_action.
build_context(s) ==
    LET base == [last_action |-> s.last_action]
    IN  IF s.last_action \in {"LOGGED", "FAILED", "NO_MATCH", "SELECTED"}
        THEN base @@ [processing_results |-> s.processing_results]
        ELSE IF s.last_action = "QUERY_DAILY_STATS"
        THEN base @@ [daily_log_report |-> s.daily_log_report]
                  @@ (IF s.start_date # None
                      THEN [start_date |-> s.start_date] ELSE <<>>)
                  @@ (IF s.end_date # None
                      THEN [end_date |-> s.end_date] ELSE <<>>)
        ELSE base

\* The reply of the text oracle is opaque; one AIMessage is returned.
response_node_clears_results(s) ==
    [messages |-> << [role |-> "ai", content |-> "reply"] >>,
     processing_results |-> <<>>]

response_node(s) ==
    [messages |-> << [role |-> "ai", content |-> "reply"] >>]

\* ----------------------------------------------------------- the step loop
Init ==
    /\ state = AgentState
    /\ pc = "idle"
    /\ daily_logs = <<>>
    /\ turn = 0
    /\ steps = <<>>
    /\ parsed = <<>>
    /\ intent = None
    /\ removed = 0
    /\ missed = 0
    /\ checkpoints = <<>>
    /\ calls = <<>>
    /\ clock = "2023-10-28"
    /\ base_logs = 0
    /\ solo = AgentState
    /\ solo_logs = <<>>

\* latest(thread): the values of the newest checkpoint, or the empty state.
latest(cps) == IF cps = <<>> THEN AgentState ELSE cps[Len(cps)].values

\* history(thread): the snapshots, newest first.
get_state_history(cps) == [i \in 1..Len(cps) |-> cps[Len(cps) + 1 - i]]

put_only_at_turn_end(cps, values, next) ==
    IF next = END
    THEN Append(cps, [checkpoint_id |-> Len(cps) + 1,
                      values |-> values,
                      next |-> next])
    ELSE cps

put_reuses_id(cps, values, next) ==
    LET all == Append(cps, [checkpoint_id |-> Len(cps) + 1,
                            values |-> values,
                            next |-> next])
    IN  IF Len(all) > Retained
        THEN SubSeq(all, Len(all) - Retained + 1, Len(all))
        ELSE all

\* The record written after a step: the full state and a sequence number.
put(cps, values, next) ==
    LET record == [checkpoint_id |-> IF cps = <<>> THEN 1
                                     ELSE cps[Len(cps)].checkpoint_id + 1,
                   values |-> values,
                   next |-> next]
        all == Append(cps, record)
    IN  IF Len(all) > Retained
        THEN SubSeq(all, Len(all) - Retained + 1, Len(all))
        ELSE all

called(fn, answer) == [fn |-> fn, answer |-> answer]

\* A node returned `update`: merge it, write the checkpoint, record the
\* step, follow the edge. ghost is the update the node returns on solo.
Step(node, update, next, ghost) ==
    /\ state' = Merge(state, update)
    /\ checkpoints' = put(checkpoints, Merge(state, update), next)
    /\ steps' = Append(steps, node)
    /\ pc' = next
    /\ solo' = Merge(solo, ghost)

Abort_with_checkpoint(cursor) ==
    /\ pc' = cursor
    /\ calls' = <<>>
    /\ checkpoints' = put(checkpoints, state, cursor)
    /\ UNCHANGED <<state, steps, solo>>

\* A node raised: the turn is aborted, nothing is merged and no checkpoint
\* is written.
Abort(cursor) ==
    /\ pc' = cursor
    /\ calls' = <<>>
    /\ UNCHANGED <<state, steps, checkpoints, solo>>

human_message == [messages |-> << [role |-> "human", content |-> "input"] >>]

\* The caller invokes the graph with one user message: a new input after a
\* finished turn, the same input again after a failed one. The executor
\* loads the latest checkpoint and merges the input.
StartTurn ==
    /\ pc \in {"idle", END, "failed", "unavailable"}
    /\ turn < MaxTurns
    /\ turn' = turn + 1
    /\ state' = Merge(latest(checkpoints), human_message)
    /\ solo' = IF steps = <<>> /\ pc = "unavailable"
               THEN solo ELSE Merge(solo, human_message)
    /\ base_logs' = IF pc \in {"idle", END} THEN Len(daily_logs)
                    ELSE base_logs
    /\ pc' = "input_parser"
    /\ steps' = <<>>
    /\ calls' = <<>>
    /\ parsed' = <<>>
    /\ intent' = None
    /\ removed' = 0
    /\ missed' = 0
    /\ UNCHANGED <<daily_logs, checkpoints, clock, solo_logs>>

InputParser ==
    /\ pc = "input_parser"
    /\ \E result \in FoodIntakeEvent :
            LET update == input_parser_node(state, result)
            IN  /\ Step("input_parser", update,
                        route_parser(Merge(state, update)),
                        input_parser_node(solo, result))
                /\ parsed' = result.items
                /\ intent' = result.action
                /\ calls' = << called("intent_oracle", result) >>
    /\ UNCHANGED <<daily_logs, turn, removed, missed, clock, base_logs,
                   solo_logs>>

\* The catalog calls food_search_node makes on state s.
food_search_calls(s, results) ==
    IF s.pending_food_items = <<>> THEN <<>>
    ELSE << [fn |-> "search_food",
             query |-> s.pending_food_items[1].food_name,
             answer |-> results] >>

FoodSearch ==
    /\ pc = "food_search"
    /\ \E results \in SearchResult :
            /\ Step("food_search", food_search_node(state, results),
                    "agent_selection", food_search_node(solo, results))
            /\ calls' = food_search_calls(state, results)
    /\ UNCHANGED <<daily_logs, turn, parsed, intent, removed, missed, clock,
                   base_logs, solo_logs>>

AgentSelection ==
    /\ pc = "agent_selection"
    /\ \E result \in FoodSelectionResult :
            IF selection_raises(state)
            THEN Abort("failed")
            ELSE LET update == agent_selection_node(state, result)
                 IN  /\ Step("agent_selection", update,
                             route_after_selection(Merge(state, update)),
                             agent_selection_node(solo, result))
                     /\ calls' = IF Len(state.search_results) = 1 THEN <<>>
                                 ELSE << called("selection_oracle", result) >>
    /\ UNCHANGED <<daily_logs, turn, parsed, intent, removed, missed, clock,
                   base_logs, solo_logs>>

\* The calls calculate_log_node makes on state s.
calculate_log_calls(s) ==
    (IF s.pending_food_items # <<>> /\ s.selected_food_id # None
     THEN << called("calculate_food_macros",
                    calculate_food_macros(s.selected_food_id,
                                          s.pending_food_items[1].amount)) >>
     ELSE <<>>)
    \o
    (IF logs_entry(s) THEN << called("create_log_entry", <<>>) >> ELSE <<>>)

CalculateLog ==
    /\ pc = "calculate_log"
    /\ LET update == calculate_log_node(state, daily_logs)
           new == Merge(state, update)
       IN  /\ Step("calculate_log", update, route_after_calculate(new),
                   calculate_log_node(solo, solo_logs))
           /\ removed' = removed + Len(state.pending_food_items)
                                 - Len(new.pending_food_items)
           /\ daily_logs' = calculate_log_session(state, daily_logs)
           /\ solo_logs' = calculate_log_session(solo, solo_logs)
           /\ missed' = IF state.pending_food_items # <<>>
                           /\ ~logs_entry(state)
                        THEN missed + 1 ELSE missed
           /\ calls' = calculate_log_calls(state)
    /\ UNCHANGED <<turn, parsed, intent, clock, base_logs>>

stats_lookup_call(s) ==
    IF s.start_date # None /\ s.end_date # None
    THEN "get_logs_by_date_range" ELSE "get_logs_by_date"

\* The query stats_lookup_node sends to the log service on state s, with
\* the service's answer.
stats_lookup_calls(s, session) ==
    IF s.start_date # None /\ s.end_date # None
    THEN << [fn |-> stats_lookup_call(s),
             args |-> <<s.start_date, s.end_date>>,
             answer |-> get_logs_by_date_range(session, s.start_date,
                                               s.end_date)] >>
    ELSE << [fn |-> stats_lookup_call(s),
             args |-> <<s.current_date>>,
             answer |-> get_logs_by_date(session, s.current_date)] >>

StatsLookup ==
    /\ pc = "stats_lookup"
    /\ Step("stats_lookup", stats_lookup_node(state, daily_logs),
            "response", stats_lookup_node(solo, solo_logs))
    /\ calls' = stats_lookup_calls(state, daily_logs)
    /\ UNCHANGED <<daily_logs, turn, parsed, intent, removed, missed, clock,
                   base_logs, solo_logs>>

\* The call response_node makes on state s: the text oracle is handed the
\* system message carrying the context.
response_calls(s) ==
    << [fn |-> "text_oracle",
        context |-> build_context(s),
        answer |-> "reply"] >>

Response ==
    /\ pc = "response"
    /\ Step("response", response_node(state), END, response_node(solo))
    /\ calls' = response_calls(state)
    /\ UNCHANGED <<daily_logs, turn, parsed, intent, removed, missed, clock,
                   base_logs, solo_logs>>

\* Midnight passes.
Tick ==
    /\ clock = "2023-10-28"
    /\ clock' = "2023-10-29"
    /\ UNCHANGED <<state, pc, daily_logs, turn, steps, parsed, intent, removed,
                   missed, checkpoints, calls, base_logs, solo, solo_logs>>

Next ==
    \/ StartTurn
    \/ InputParser
    \/ FoodSearch
    \/ AgentSelection
    \/ CalculateLog
    \/ StatsLookup
    \/ Response

Spec == Init /\ [][Next]_vars

\* ------------------------------------------------- collaborators failing
\* The node at the cursor calls a collaborator (an oracle, the catalog, the
\* database) on state s.
calls_collaborator(node, s) ==
    CASE node = "input_parser" -> TRUE
      [] node = "food_search" -> s.pending_food_items # <<>>
      [] node = "agent_selection" ->
            Len(s.search_results) # 1 /\ ~selection_raises(s)
      [] node = "calculate_log" ->
            s.pending_food_items # <<>> /\ s.selected_food_id # None
      [] node = "stats_lookup" -> TRUE
      [] node = "response" -> TRUE

\* The collaborator's call raises (timeout, unavailable) before the node
\* has written anything.
StepFails ==
    /\ pc \in Nodes
    /\ calls_collaborator(pc, state)
    /\ Abort("unavailable")
    /\ UNCHANGED <<daily_logs, turn, parsed, intent, removed, missed, clock,
                   base_logs, solo_logs>>

\* calculate_log_node raises after create_log_entry has committed the row
\* (session.refresh, or the process dies before the node returns).
FailsAfterCommit ==
    /\ pc = "calculate_log"
    /\ logs_entry(state)
    /\ Abort("unavailable")
    /\ daily_logs' = calculate_log_session(state, daily_logs)
    /\ solo_logs' = calculate_log_session(solo, solo_logs)
    /\ UNCHANGED <<turn, parsed, intent, removed, missed, clock, base_logs>>

NextFaults ==
    \/ Next
    \/ StepFails
    \/ FailsAfterCommit

SpecFaults == Init /\ [][NextFaults]_vars

\* ------------------------------------------- the macros of any amount
\* calculate_log_node on one selected item of any amount up to MaxAmount.
InitMacros ==
    /\ \E a \in 1..MaxAmount, f \in DOMAIN FoodItem :
           state = [AgentState EXCEPT
                       !.pending_food_items =
                           << [food_name |-> FoodItem[f].name, amount |-> a,
                               unit |-> "g", original_text |-> "input"] >>,
                       !.selected_food_id = f,
                       !.last_action = "SELECTED"]
    /\ pc = "calculate_log"
    /\ daily_logs = <<>>
    /\ turn = MaxTurns
    /\ steps = <<>>
    /\ parsed = state.pending_food_items
    /\ intent = None
    /\ removed = 0
    /\ missed = 0
    /\ checkpoints = <<>>
    /\ calls = <<>>
    /\ clock = "2023-10-28"
    /\ base_logs = 0
    /\ solo = state
    /\ solo_logs = <<>>

NextMacros ==
    \/ CalculateLog
    \/ Response

SpecMacros == InitMacros /\ [][NextMacros]_vars

\* ------------------------------------------- calculate_log on any state
\* An estimate per 100 g, as agent_selection_node stores it.
Estimation == [calories |-> 15000, protein |-> 750, carbs |-> 2000, fat |-> 500]

\* States calculate_log_node can be handed: with or without a selection,
\* an estimate, an earlier report and earlier outcomes. The table holds the
\* rows of the report.
LogInputs ==
    { [AgentState EXCEPT !.pending_food_items = p,
                         !.last_action = "SELECTED",
                         !.selected_food_id = f,
                         !.current_estimation = e,
                         !.daily_log_report = r,
                         !.processing_results = o] :
        p \in ItemSeqs,
        f \in {None, "165", "999"},
        e \in {NoneDict, Estimation},
        r \in { <<>>,
                create_log_entry(<<>>, "165", 150,
                                 calculate_food_macros("165", 150),
                                 "2023-10-28", "150g chicken") },
        o \in { <<>>,
                << fail_item([food_name |-> "chicken", amount |-> 150,
                              unit |-> "g", original_text |-> "150g chicken"],
                             "No appropriate match found for") >> } }

InitLog ==
    /\ state \in LogInputs
    /\ pc = "calculate_log"
    /\ daily_logs = state.daily_log_report
    /\ turn = MaxTurns
    /\ steps = <<>>
    /\ parsed = state.pending_food_items
    /\ intent = None
    /\ removed = 0
    /\ missed = 0
    /\ checkpoints = <<>>
    /\ calls = <<>>
    /\ clock = "2023-10-28"
    /\ base_logs = Len(daily_logs)
    /\ solo = state
    /\ solo_logs = daily_logs

NextLog ==
    \/ CalculateLog
    \/ FoodSearch
    \/ AgentSelection
    \/ Response

SpecLog == InitLog /\ [][NextLog]_vars

\* -------------------------------------------- stats_lookup on any state
StatsDays == {"2023-10-26", "2023-10-27", "2023-10-28"}

\* The table after a 150 g chicken row is logged on `day`.
RowOn(session, day) ==
    create_log_entry(session, "165", 150, calculate_food_macros("165", 150),
                     day, "150g chicken")

\* Tables of up to two rows, logged in the order of their days.
StatsTables ==
    { <<>> }
    \cup { RowOn(<<>>, d) : d \in StatsDays }
    \cup { RowOn(RowOn(<<>>, d[1]), d[2]) :
             d \in { e \in StatsDays \X StatsDays :
                       DateOrd[e[1]] <= DateOrd[e[2]] } }

\* States stats_lookup_node can be handed: a date, no bound, one bound or
\* both bounds of a range, and an earlier report.
StatsInputs ==
    { [AgentState EXCEPT !.last_action = "QUERY_DAILY_STATS",
                         !.current_date = c,
                         !.start_date = a,
                         !.end_date = b,
                         !.daily_log_report = r] :
        c \in StatsDays,
        a \in {None, "2023-10-26"},
        b \in {None, "2023-10-27"},
        r \in { <<>>, RowOn(<<>>, "2023-10-26") } }

InitStats ==
    /\ state \in StatsInputs
    /\ pc = "stats_lookup"
    /\ daily_logs \in StatsTables
    /\ turn = MaxTurns
    /\ steps = <<>>
    /\ parsed = <<>>
    /\ intent = None
    /\ removed = 0
    /\ missed = 0
    /\ checkpoints = <<>>
    /\ calls = <<>>
    /\ clock = "2023-10-28"
    /\ base_logs = Len(daily_logs)
    /\ solo = state
    /\ solo_logs = daily_logs

NextStats ==
    \/ StatsLookup
    \/ Response

SpecStats == InitStats /\ [][NextStats]_vars

\* ------------------------------------------------ the reply on any state
\* States response_node can be handed: every action tag, with and without
\* outcomes, a report and range bounds.
ReplyInputs ==
    { [AgentState EXCEPT !.messages = human_message.messages,
                         !.last_action = a,
                         !.processing_results = o,
                         !.daily_log_report = r,
                         !.start_date = b,
                         !.end_date = e] :
        a \in GraphAction \cup {None, "", "FAILED", "ESTIMATED"},
        o \in { <<>>,
                << fail_item([food_name |-> "chicken", amount |-> 150,
                              unit |-> "g", original_text |-> "150g chicken"],
                             "No appropriate match found for") >> },
        r \in { <<>>, RowOn(<<>>, "2023-10-26") },
        b \in {None, "2023-10-26"},
        e \in {None, "2023-10-27"} }

InitReply ==
    /\ state \in ReplyInputs
    /\ pc = "response"
    /\ daily_logs = state.daily_log_report
    /\ turn = MaxTurns
    /\ steps = <<>>
    /\ parsed = <<>>
    /\ intent = None
    /\ removed = 0
    /\ missed = 0
    /\ checkpoints = <<>>
    /\ calls = <<>>
    /\ clock = "2023-10-28"
    /\ base_logs = Len(daily_logs)
    /\ solo = state
    /\ solo_logs = daily_logs

NextReply == Response

SpecReply == InitReply /\ [][NextReply]_vars

\* ------------------------------------------------- other threads running
\* A turn of another conversation thread reaches calculate_log_node and
\* commits its row: all threads open sessions on the one daily_logs table,
\* whose rows carry no thread id.
OtherThread ==
    /\ Len(daily_logs) - Len(solo_logs) < MaxOtherRows
    /\ daily_logs' =
           create_log_entry(daily_logs, "275", 225,
                            calculate_food_macros("275", 225), today,
                            "225g rice")
    /\ UNCHANGED <<state, pc, turn, steps, parsed, intent, removed, missed,
                   checkpoints, calls, clock, base_logs, solo, solo_logs>>

NextThreads ==
    \/ Next
    \/ OtherThread

SpecThreads == Init /\ [][NextThreads]_vars

\* ------------------------------------------------------ the clock running
NextClock ==
    \/ Next
    \/ Tick

SpecClock == Init /\ [][NextClock]_vars

\* ------------------------------------------------- the nodes on any state
\* States a node or a router can be handed: the fields they read take
\* every value of their domain.
NodeInputs ==
    { [AgentState EXCEPT !.messages = m,
                         !.pending_food_items = p,
                         !.last_action = a,
                         !.search_results = r,
                         !.selected_food_id = f] :
        m \in { <<>>, << [role |-> "human", content |-> "input"] >> },
        p \in ItemSeqs,
        a \in GraphAction \cup {None, "ESTIMATED"},
        r \in SearchResult,
        f \in {None, "165"} }

InitNodes ==
    /\ state \in NodeInputs
    /\ pc \in Nodes
    /\ daily_logs = <<>>
    /\ turn = MaxTurns
    /\ steps = <<>>
    /\ parsed = state.pending_food_items
    /\ intent = None
    /\ removed = 0
    /\ missed = 0
    /\ checkpoints = <<>>
    /\ calls = <<>>
    /\ clock = "2023-10-28"
    /\ base_logs = 0
    /\ solo = state
    /\ solo_logs = <<>>

NextNodes ==
    \/ InputParser
    \/ FoodSearch
    \/ AgentSelection
    \/ CalculateLog
    \/ StatsLookup
    \/ Response

SpecNodes == InitNodes /\ [][NextNodes]_vars

\* ------------------------------------------------------------- properties
Count(seq, x) == Cardinality({i \in DOMAIN seq : seq[i] = x})

CountStatus(results, st) ==
    Cardinality({i \in DOMAIN results : results[i].status = st})

IsSuffix(a, b) ==
    \E k \in 0..Len(b) : a = SubSeq(b, k + 1, Len(b))

LastStep == IF steps = <<>> THEN "none" ELSE steps[Len(steps)]

\* This transition is the completion of a step of `node`.
StepDone(node) == steps' = Append(steps, node)

\* After k runs of calculate_log in a turn, len(parsed) - k items are pending.
C1_IterationsCounted ==
    steps # <<>> =>
        Count(steps, "calculate_log") + Len(state.pending_food_items)
            = Len(parsed)

C1_IterationRemovesOne ==
    (StepDone("calculate_log") /\ parsed # <<>>) =>
        Len(state'.pending_food_items) = Len(state.pending_food_items) - 1

\* C1: every iteration of the item loop (one run of calculate_log) shortens
\* pending_food_items by exactly one, so after k iterations of a turn the
\* list has len(parsed) - k items and is empty after len(parsed) iterations.
C1_LoopTermination ==
    [](C1_IterationsCounted) /\ [][C1_IterationRemovesOne]_vars

C1_Witness ==
    /\ Len(parsed) = MaxItems
    /\ Count(steps, "calculate_log") = MaxItems
    /\ state.pending_food_items = <<>>

\* C2: a turn that is over ran the response step exactly once, as its last
\* step, and only the response step leads to the terminal marker.
C2_TurnEndsWithResponse ==
    (turn > 0 /\ pc \in {END, "failed"}) =>
        /\ LastStep = "response"
        /\ Count(steps, "response") = 1

\* C3: no step raises: the turn is never aborted and the node about to run
\* returns an update in the state it is given.
C3_StepsAreTotal ==
    /\ pc # "failed"
    /\ pc = "agent_selection" => ~selection_raises(state)

C4_SuffixOfParsed ==
    steps # <<>> => IsSuffix(state.pending_food_items, parsed)

C4_KeepsOrRemovesHead ==
    pc \in Nodes \ {"input_parser"} =>
        \/ state'.pending_food_items = state.pending_food_items
        \/ /\ state.pending_food_items # <<>>
           /\ state'.pending_food_items = Tail(state.pending_food_items)

\* C4: after the intent parser, every step leaves pending_food_items as it
\* was or removes its head, and the list is always a suffix of what the
\* parser produced.
C4_PendingShrinksHeadFirst ==
    [](C4_SuffixOfParsed) /\ [][C4_KeepsOrRemovesHead]_vars

C4_Witness ==
    /\ Len(parsed) = 2
    /\ parsed[1] # parsed[2]
    /\ "calculate_log" \in {steps[i] : i \in DOMAIN steps}
    /\ state.pending_food_items = Tail(parsed)

C6_SelectionXorEstimation ==
    ~(state.selected_food_id # None /\ state.current_estimation # NoneDict)

\* C7: the single date and the start/end pair are never populated together.
C7_OneDateMode ==
    ~(/\ state.current_date # None
      /\ state.start_date # None
      /\ state.end_date # None)

C8_NextAfterParser ==
    StepDone("input_parser") =>
        \/ /\ state'.last_action \in {"LOG_FOOD", "QUERY_FOOD_INFO"}
           /\ pc' = "food_search"
        \/ /\ state'.last_action = "QUERY_DAILY_STATS"
           /\ pc' = "stats_lookup"
        \/ /\ state'.last_action
                 \notin {"LOG_FOOD", "QUERY_FOOD_INFO", "QUERY_DAILY_STATS"}
           /\ pc' = "response"

\* C8: the step after the intent parser is food_search for LOG_FOOD and
\* QUERY_FOOD_INFO, stats_lookup for QUERY_DAILY_STATS, response otherwise.
C8_RouteAfterParser == [][C8_NextAfterParser]_vars

C8_Witness ==
    /\ steps = <<"input_parser">>
    /\ state.last_action = "QUERY_FOOD_INFO"
    /\ pc = "food_search"

C9_NextAfterSelection ==
    StepDone("agent_selection") =>
        /\ pc' \in {"calculate_log", "response"}
        /\ pc' = "calculate_log" <=> state'.selected_food_id # None

\* C9: the step after a selection that returned is calculate_log exactly
\* when selected_food_id is set, and response otherwise.
C9_RouteAfterSelection == [][C9_NextAfterSelection]_vars

C9_Witness ==
    /\ LastStep = "agent_selection"
    /\ pc = "calculate_log"
    /\ state.selected_food_id # None
    /\ Len(state.search_results) > 1

C10_NextAfterCalculate ==
    StepDone("calculate_log") =>
        pc' = IF state'.pending_food_items # <<>>
              THEN "food_search" ELSE "response"

\* C10: the step after calculate_log is food_search when items are still
\* pending and response when none is.
C10_RouteAfterCalculate == [][C10_NextAfterCalculate]_vars

C10_Witness ==
    /\ LastStep = "calculate_log"
    /\ pc = "food_search"
    /\ state.pending_food_items # <<>>

\* Two states the routers cannot tell apart.
SameRoutingInputs(s, t) ==
    /\ s.last_action = t.last_action
    /\ (s.pending_food_items = <<>>) <=> (t.pending_food_items = <<>>)

\* C11: every router returns the same next step on any two states that
\* agree on last_action and on whether pending_food_items is empty,
\* whatever their messages and other fields hold.
C11_RoutingReadsTwoFields ==
    \A t \in NodeInputs :
        SameRoutingInputs(state, t) =>
            /\ route_parser(t) = route_parser(state)
            /\ route_after_selection(t) = route_after_selection(state)
            /\ route_after_calculate(t) = route_after_calculate(state)

C11_Witness ==
    /\ LastStep = "agent_selection"
    /\ pc = "calculate_log"
    /\ state.selected_food_id = "999"
    /\ state.messages # <<>>
    /\ \E t \in NodeInputs :
           /\ SameRoutingInputs(state, t)
           /\ t.messages = <<>>
           /\ t.selected_food_id = None
           /\ t.search_results # state.search_results

C12_AutoSelects ==
    (pc = "agent_selection" /\ Len(state.search_results) = 1) =>
        /\ StepDone("agent_selection")
        /\ state'.last_action = "SELECTED"
        /\ state'.selected_food_id = state.search_results[1].id
        /\ calls' = <<>>

\* C12: with exactly one candidate in search_results the selection step
\* completes with last_action SELECTED and that candidate's id, and no
\* call of the selection oracle, whatever pending_food_items holds.
C12_SingleCandidateSelected == [][C12_AutoSelects]_vars

C12_Witness ==
    /\ LastStep = "agent_selection"
    /\ Len(state.search_results) = 1
    /\ state.pending_food_items = <<>>
    /\ state.last_action = "SELECTED"
    /\ state.selected_food_id = "165"
    /\ calls = <<>>

\* The selection step completed on an empty search with the oracle's
\* answer NO_MATCH.
NoMatchOnEmptySearch ==
    /\ StepDone("agent_selection")
    /\ state.search_results = <<>>
    /\ calls' # <<>>
    /\ calls'[1].fn = "selection_oracle"
    /\ calls'[1].answer.status = "NO_MATCH"

C13_NoMatchGoesToCompute ==
    NoMatchOnEmptySearch =>
        /\ state'.last_action = "NO_MATCH"
        /\ state'.processing_results =
               Append(state.processing_results,
                      fail_item(state.pending_food_items[1],
                                "No appropriate match found for"))
        /\ pc' = "calculate_log"

\* C13: when the search for the head item returns no candidate and the
\* selection oracle answers NO_MATCH, selection records one FAILED entry
\* with last_action NO_MATCH and the item goes on to the compute step,
\* which removes it from pending_food_items before the turn ends.
C13_NoMatchItemRemoved == [][C13_NoMatchGoesToCompute]_vars

\* The row is one the turn's query asks for.
Queried(log) ==
    IF state.start_date # None /\ state.end_date # None
    THEN /\ DateOrd[log.timestamp] >= DateOrd[state.start_date]
         /\ DateOrd[log.timestamp] <= DateOrd[state.end_date]
    ELSE log.timestamp = state.current_date

ReportIsLookup ==
    LET report == state.daily_log_report
        asked == {i \in DOMAIN daily_logs : Queried(daily_logs[i])}
    IN  /\ Len(report) = Cardinality(asked)
        /\ \A i \in asked : \E j \in DOMAIN report : report[j] = daily_logs[i]
        /\ \A j \in DOMAIN report : \E i \in asked : report[j] = daily_logs[i]

\* C14: a turn whose parsed intent is QUERY_DAILY_STATS runs input_parser,
\* stats_lookup, response in that order and nothing else; it persists no
\* row, daily_log_report is the lookup's answer and processing_results
\* stays as the parser left it.
C14_StatsTurn ==
    (steps # <<>> /\ state.last_action = "QUERY_DAILY_STATS") =>
        /\ \/ steps = <<"input_parser">> /\ pc = "stats_lookup"
           \/ steps = <<"input_parser", "stats_lookup">> /\ pc = "response"
           \/ /\ steps = <<"input_parser", "stats_lookup", "response">>
              /\ pc = END
        /\ Len(daily_logs) = base_logs
        /\ state.processing_results = <<>>
        /\ Len(steps) >= 2 => ReportIsLookup

C14_Witness ==
    /\ pc = END
    /\ steps = <<"input_parser", "stats_lookup", "response">>
    /\ state.last_action = "QUERY_DAILY_STATS"
    /\ state.daily_log_report # <<>>
    /\ state.daily_log_report = daily_logs

\* The newest record of the store, or none.
Newest(cps) == IF cps = <<>> THEN 0 ELSE cps[Len(cps)].checkpoint_id

C15_StepWritesCheckpoint ==
    /\ \A node \in Nodes :
           StepDone(node) =>
               /\ checkpoints' # <<>>
               /\ Newest(checkpoints') = Newest(checkpoints) + 1
               /\ checkpoints'[Len(checkpoints')].values = state'
               /\ checkpoints'[Len(checkpoints')].next = pc'
    /\ (pc \notin Nodes /\ pc' = "input_parser") =>
           state' = Merge(latest(checkpoints), human_message)

C15_LatestIsLastCompletedStep ==
    steps # <<>> => latest(checkpoints) = state

\* C15: every completed step of a turn writes one checkpoint holding the
\* full state before the next step starts, so after a failure at any
\* point the latest checkpoint is the state as of the last completed
\* step, and that is what the next turn resumes from.
C15_CheckpointAfterEveryStep ==
    []C15_LatestIsLastCompletedStep /\ [][C15_StepWritesCheckpoint]_vars

C15_Witness ==
    /\ pc = "unavailable"
    /\ steps = <<"input_parser", "food_search", "agent_selection">>
    /\ Len(checkpoints) = Retained
    /\ latest(checkpoints) = state
    /\ Newest(checkpoints) = 3

C16_FailedStep ==
    (pc \in Nodes /\ pc' \in {"failed", "unavailable"}) =>
        /\ steps' = steps
        /\ checkpoints' = checkpoints
        /\ state' = state
        /\ steps # <<>> => latest(checkpoints') = state'

\* C16: a step that raises aborts the turn; no checkpoint is written for
\* it, the conversation state is not changed, and the latest checkpoint is
\* still the one of the last completed step.
C16_NoCheckpointForFailedStep == [][C16_FailedStep]_vars

C16_Witness ==
    /\ pc = "unavailable"
    /\ steps = <<"input_parser", "food_search", "agent_selection">>
    /\ Len(daily_logs) = base_logs + 1
    /\ Newest(checkpoints) = 3
    /\ latest(checkpoints) = state

\* Rows persisted since the caller first sent the current input.
NewRows == (base_logs + 1)..Len(daily_logs)

RowOf(i, item) ==
    /\ daily_logs[i].original_text = item.original_text
    /\ daily_logs[i].amount_g = item.amount

\* C17: when a failed turn has been retried as a whole and the retry has
\* completed, the rows persisted for the input are those of one run
\* without failure: at most one per item of the input, none logged twice.
C17_RetryIsIdempotent ==
    (pc = END /\ \A i \in NewRows : \E k \in DOMAIN parsed : RowOf(i, parsed[k]))
        => \A item \in SingleFoodItem :
               Cardinality({i \in NewRows : RowOf(i, item)})
                   <= Count(parsed, item)

C19_AppendOnly ==
    \/ checkpoints' = checkpoints
    \/ /\ checkpoints' # <<>>
       /\ Newest(checkpoints') > Newest(checkpoints)
       /\ \A i \in DOMAIN checkpoints' :
              i < Len(checkpoints') =>
                  \E j \in DOMAIN checkpoints : checkpoints[j] = checkpoints'[i]

C19_Chain ==
    LET history == get_state_history(checkpoints)
    IN  /\ \A i, j \in DOMAIN history :
               i < j => history[i].checkpoint_id > history[j].checkpoint_id
        /\ history # <<>> =>
               /\ history[1].values = latest(checkpoints)
               /\ history[1].checkpoint_id = Newest(checkpoints)

\* C19: the checkpoints of the thread form a strictly ordered chain, one
\* record per checkpoint id; a write only appends a record newer than all
\* others; latest is the most recently written record and history lists
\* the records newest first.
C19_OrderedChain == []C19_Chain /\ [][C19_AppendOnly]_vars

C19_Witness ==
    /\ Len(checkpoints) = Retained
    /\ turn = MaxTurns
    /\ pc = END
    /\ get_state_history(checkpoints)[1].values = state
    /\ get_state_history(checkpoints)[1].checkpoint_id
           > get_state_history(checkpoints)[Retained].checkpoint_id

\* The update `node` returns when it is run again on state s, on calendar
\* day `day`, with its collaborators answering as recorded in answers.
replay(node, s, answers, session, day) ==
    CASE node = "input_parser" ->
            input_parser_node_at(s, answers[1].answer, day)
      [] node = "food_search" ->
            food_search_node(s, IF answers = <<>> THEN <<>>
                                ELSE answers[1].answer)
      [] node = "agent_selection" ->
            agent_selection_node(s, IF answers = <<>>
                                    THEN CHOOSE r \in FoodSelectionResult : TRUE
                                    ELSE answers[1].answer)
      [] node = "calculate_log" -> calculate_log_node(s, session)
      [] node = "stats_lookup" -> [daily_log_report |-> answers[1].answer]
      [] node = "response" -> response_node(s)

C18_StepReplays ==
    \A node \in Nodes :
        StepDone(node) =>
            \A day \in Days :
                DateOrd[day] >= DateOrd[clock] =>
                    state' = Merge(state, replay(node, state, calls',
                                                 daily_logs, day))

\* C18: every step of a turn, replayed from the state it started from with
\* the same collaborator answers, on the same or a later day, yields
\* the state the original step produced; so the replay of the turn ends in
\* the original final state.
C18_ReplayYieldsSameState == [][C18_StepReplays]_vars

\* The state apart from the report read from the daily_logs table.
OwnFields(s) == [s EXCEPT !.daily_log_report = <<>>]

StateInvariant(s) ==
    /\ ~(s.current_date # None /\ s.start_date # None /\ s.end_date # None)
    /\ ~(s.selected_food_id # None /\ s.current_estimation # NoneDict)

\* C21: an update that would break an invariant of the state is rejected
\* by the engine, so no checkpoint of the thread ever holds a state with
\* both date modes populated or with both a selection and an estimation.
C21_NoCheckpointBreaksInvariant ==
    \A i \in DOMAIN checkpoints : StateInvariant(checkpoints[i].values)

IsPrefix(a, b) == Len(a) <= Len(b) /\ a = SubSeq(b, 1, Len(a))

C22_MessagesGrow ==
    /\ IsPrefix(state.messages, state'.messages)
    /\ \A node \in Nodes \ {"response"} :
           StepDone(node) => state'.messages = state.messages
    /\ StepDone("response") =>
           /\ Len(state'.messages) = Len(state.messages) + 1
           /\ state'.messages[Len(state'.messages)].role = "ai"
           /\ [state' EXCEPT !.messages = <<>>]
                  = [state EXCEPT !.messages = <<>>]
    /\ (pc \notin Nodes /\ pc' = "input_parser") =>
           state'.messages = state.messages \o human_message.messages

\* C22: messages only grows, by every step and across turns: the earlier
\* sequence is a prefix of the later one; the new input adds the user
\* message, the response step adds exactly one reply and changes no other
\* field, and no other step adds anything.
C22_MessagesAppendOnly == [][C22_MessagesGrow]_vars

C22_Witness ==
    /\ turn = MaxTurns
    /\ pc = END
    /\ Len(state.messages) = 2 * MaxTurns
    /\ state.messages[Len(state.messages)].role = "ai"
    /\ state.processing_results # <<>>

\* The test's tolerance, 0.1, in hundredths.
Tolerance == 10

Abs(x) == IF x < 0 THEN -x ELSE x

MacroFields == {"calories", "protein", "fat", "carbs"}

\* C23: for every catalog id and amount, each macro computed for twice
\* the amount is within the tolerance of twice the macro computed for
\* the amount, the rounding to two decimals notwithstanding.
C23_MacrosLinear ==
    \A i \in DOMAIN daily_logs :
        LET row == daily_logs[i]
            twice == calculate_food_macros(row.food_id, 2 * row.amount_g)
        IN  \A f \in MacroFields : Abs(twice[f] - 2 * row[f]) <= Tolerance

\* A logged row whose doubled amount does not give exactly twice the
\* value: the rounding shows.
C23_Witness ==
    \E i \in DOMAIN daily_logs :
        LET row == daily_logs[i]
            twice == calculate_food_macros(row.food_id, 2 * row.amount_g)
        IN  /\ row.food_id = "275"
            /\ twice.calories # 2 * row.calories
            /\ Abs(twice.calories - 2 * row.calories) <= Tolerance

\* C24: in every state last_action, once a step has written it, is a
\* member of GraphAction.
C24_LastActionInGraphAction ==
    state.last_action # None => state.last_action \in GraphAction

C25_AfterParser ==
    StepDone("input_parser") =>
        /\ calls' # <<>>
        /\ calls'[1].fn = "intent_oracle"
        /\ state'.pending_food_items = calls'[1].answer.items
        /\ state'.last_action = calls'[1].answer.action
        /\ state'.processing_results = <<>>

\* C25: after the intent parser step of any turn pending_food_items is
\* the oracle's item list in its order, last_action the oracle's intent
\* tag and processing_results empty, whatever the previous turn left in
\* these fields.
C25_ParserOverwrites == [][C25_AfterParser]_vars

\* The parser has run in a later turn on a state whose previous turn left
\* results, an unprocessed item and another last_action.
C25_Witness ==
    /\ turn = MaxTurns
    /\ steps = <<"input_parser">>
    /\ Len(checkpoints) >= 2
    /\ checkpoints[Len(checkpoints) - 1].next = END
    /\ checkpoints[Len(checkpoints) - 1].values.processing_results # <<>>
    /\ checkpoints[Len(checkpoints) - 1].values.pending_food_items # <<>>
    /\ state.processing_results = <<>>
    /\ state.pending_food_items = <<>>
    /\ state.last_action = "CHITCHAT"

C26_AfterDatelessAnswer ==
    (/\ StepDone("input_parser")
     /\ calls' # <<>>
     /\ calls'[1].answer.target_date = None
     /\ calls'[1].answer.start_date = None
     /\ calls'[1].answer.end_date = None)
        => /\ state'.current_date = None
           /\ state'.start_date = None
           /\ state'.end_date = None

\* C26: when the intent oracle gives no target date and no range, the
\* parser leaves current_date, start_date and end_date all unset; no
\* default such as today is written.
C26_NoDefaultDate == [][C26_AfterDatelessAnswer]_vars

C27_AfterSearch ==
    StepDone("food_search") =>
        /\ [state' EXCEPT !.search_results = <<>>]
               = [state EXCEPT !.search_results = <<>>]
        /\ IF state.pending_food_items = <<>>
           THEN /\ state'.search_results = <<>>
                /\ calls' = <<>>
           ELSE /\ Len(calls') = 1
                /\ calls'[1].fn = "search_food"
                /\ calls'[1].query = state.pending_food_items[1].food_name
                /\ state'.search_results = calls'[1].answer

\* C27: the food_search step changes search_results only: with nothing
\* pending it sets it to the empty list and does not query the catalog;
\* otherwise it queries once with the head item's name and search_results
\* becomes exactly the answer, earlier candidates dropped.
C27_SearchOverwrites == [][C27_AfterSearch]_vars

\* A search whose answer replaced the candidates of an earlier search.
C27_Witness ==
    /\ LastStep = "food_search"
    /\ calls # <<>>
    /\ Len(calls[1].answer) = 1
    /\ state.search_results = calls[1].answer
    /\ Count(steps, "food_search") = 2

\* The selection oracle's answer names no usable food.
NoUsableSelection(answer) ==
    \/ answer.status \in {"NO_MATCH", "AMBIGUOUS"}
    \/ answer.status = "SELECTED" /\ answer.food_id = None

C28_AfterFailedSelection ==
    (/\ StepDone("agent_selection")
     /\ calls' # <<>>
     /\ NoUsableSelection(calls'[1].answer))
        => LET before == state.processing_results
               after == state'.processing_results
               head == state.pending_food_items[1]
           IN  /\ state'.last_action = "NO_MATCH"
               /\ state'.selected_food_id = None
               /\ Len(after) = Len(before) + 1
               /\ SubSeq(after, 1, Len(before)) = before
               /\ after[Len(after)].status = "FAILED"
               /\ after[Len(after)].food_name = head.food_name
               /\ after[Len(after)].amount = head.amount
               /\ after[Len(after)].unit = head.unit
               /\ after[Len(after)].original_text = head.original_text

\* C28: when the selection oracle answers NO_MATCH, AMBIGUOUS or SELECTED
\* without a food id, the selection step sets last_action to NO_MATCH and
\* selected_food_id to None and appends one FAILED entry with the head
\* item's fields to processing_results, after the entries already there.
C28_FailedSelectionRecorded == [][C28_AfterFailedSelection]_vars

\* The second item of a turn failed after the first was logged.
C28_Witness ==
    /\ LastStep = "agent_selection"
    /\ calls # <<>>
    /\ calls[1].answer.status = "SELECTED"
    /\ calls[1].answer.food_id = None
    /\ state.last_action = "NO_MATCH"
    /\ Len(state.processing_results) = 2
    /\ state.processing_results[1].status = "LOGGED"
    /\ state.processing_results[2].status = "FAILED"

Given(x) == IF x = NoneNum THEN 0 ELSE x

C29_AfterEstimation ==
    (/\ StepDone("agent_selection")
     /\ state.search_results = <<>>
     /\ calls' # <<>>
     /\ calls'[1].answer.status = "ESTIMATED")
        => LET answer == calls'[1].answer
           IN  /\ state'.current_estimation =
                      [calories |-> Given(answer.estimated_calories),
                       protein |-> Given(answer.estimated_protein),
                       carbs |-> Given(answer.estimated_carbs),
                       fat |-> Given(answer.estimated_fat)]
               /\ state'.last_action = "ESTIMATED"
               /\ state'.selected_food_id = None
               /\ state'.processing_results = state.processing_results

\* C29: with no candidate in search_results and the oracle's answer
\* ESTIMATED, the selection step sets current_estimation to the oracle's
\* four macro values, 0 for a missing one, last_action to ESTIMATED and
\* selected_food_id to None, and leaves processing_results as it was.
C29_EstimationRecorded == [][C29_AfterEstimation]_vars

\* An estimation without calories, stored after an item was logged.
C29_Witness ==
    /\ LastStep = "agent_selection"
    /\ state.search_results = <<>>
    /\ state.last_action = "ESTIMATED"
    /\ state.current_estimation # NoneDict
    /\ state.current_estimation.calories = 0
    /\ state.current_estimation.protein > 0
    /\ Len(state.processing_results) = 1

C30_AfterLogging ==
    (/\ StepDone("calculate_log")
     /\ state.pending_food_items # <<>>
     /\ state.selected_food_id \in DOMAIN FoodItem)
        => LET head == state.pending_food_items[1]
               before == state.processing_results
               after == state'.processing_results
           IN  /\ Len(daily_logs') = Len(daily_logs) + 1
               /\ SubSeq(daily_logs', 1, Len(daily_logs)) = daily_logs
               /\ daily_logs'[Len(daily_logs')].food_id
                      = state.selected_food_id
               /\ daily_logs'[Len(daily_logs')].amount_g = head.amount
               /\ Len(after) = Len(before) + 1
               /\ SubSeq(after, 1, Len(before)) = before
               /\ after[Len(after)].status = "LOGGED"
               /\ after[Len(after)].food_name = head.food_name
               /\ after[Len(after)].original_text = head.original_text
               /\ state'.pending_food_items = Tail(state.pending_food_items)
               /\ state'.last_action = "LOGGED"
               /\ state'.selected_food_id = None

\* C30: calculate_log on a non-empty pending_food_items with a selected
\* food id the catalog knows persists one row with that id and the head
\* item's amount, appends one LOGGED entry for the head item, removes the
\* head item, sets last_action to LOGGED and selected_food_id to None.
C30_LogsHeadItem == [][C30_AfterLogging]_vars

\* The second item of a turn has been logged after the first.
C30_Witness ==
    /\ LastStep = "calculate_log"
    /\ Len(daily_logs) = 2
    /\ daily_logs[2].food_id = "165"
    /\ daily_logs[2].amount_g = 225
    /\ Len(state.processing_results) = 2
    /\ state.processing_results[2].status = "LOGGED"
    /\ state.pending_food_items = <<>>
    /\ state.selected_food_id = None

\* The macro lookup answered that the id is not in the table.
NotFound(log) ==
    \E i \in DOMAIN log : /\ log[i].fn = "calculate_food_macros"
                          /\ "error" \in DOMAIN log[i].answer

\* C31: when calculate_log runs on a non-empty pending_food_items with no
\* selection and no estimation, or when the macro lookup reports the id as
\* not found, it persists no row, appends nothing to processing_results,
\* leaves daily_log_report unchanged, removes the head item and resets
\* selected_food_id.
C31_AfterNothingToLog ==
    (/\ StepDone("calculate_log")
     /\ state.pending_food_items # <<>>
     /\ \/ /\ state.selected_food_id = None
            /\ state.current_estimation = NoneDict
        \/ NotFound(calls'))
    => /\ daily_logs' = daily_logs
       /\ state'.processing_results = state.processing_results
       /\ state'.daily_log_report = state.daily_log_report
       /\ state'.pending_food_items = Tail(state.pending_food_items)
       /\ state'.selected_food_id = None

C31_NothingLoggedItemRemoved == [][C31_AfterNothingToLog]_vars

C31_Witness ==
    /\ steps = <<"calculate_log">>
    /\ NotFound(calls)
    /\ state.daily_log_report # <<>>
    /\ state.processing_results # <<>>
    /\ daily_logs = state.daily_log_report
    /\ Len(state.pending_food_items) < Len(parsed)
    /\ state.selected_food_id = None

\* C32: when calculate_log runs with no selected_food_id and with
\* current_estimation set, it does not call the macro lookup, persists
\* exactly one row with no food id whose macros are the estimate times
\* amount/100, appends one LOGGED entry, removes the head item and clears
\* current_estimation.
C32_AfterEstimateLogged ==
    (/\ StepDone("calculate_log")
     /\ state.pending_food_items # <<>>
     /\ state.selected_food_id = None
     /\ state.current_estimation # NoneDict)
    => LET item == state.pending_food_items[1]
           est == state.current_estimation
       IN  /\ \A i \in DOMAIN calls' : calls'[i].fn # "calculate_food_macros"
           /\ Len(daily_logs') = Len(daily_logs) + 1
           /\ LET row == daily_logs'[Len(daily_logs')]
              IN  /\ row.food_id = None
                  /\ row.amount_g = item.amount
                  /\ \A m \in {"calories", "protein", "carbs", "fat"} :
                         row[m] = (est[m] * item.amount) \div 100
           /\ Len(state'.processing_results)
                  = Len(state.processing_results) + 1
           /\ state'.processing_results[Len(state'.processing_results)].status
                  = "LOGGED"
           /\ state'.pending_food_items = Tail(state.pending_food_items)
           /\ state'.current_estimation = NoneDict

C32_EstimateIsLogged == [][C32_AfterEstimateLogged]_vars

C33_ResultsGrow ==
    /\ StepDone("input_parser") => state'.processing_results = <<>>
    /\ \A node \in Nodes \ {"input_parser"} :
           StepDone(node) =>
               IsPrefix(state.processing_results, state'.processing_results)

\* C33: within a turn, after the intent parser has cleared it,
\* processing_results only grows by appending: after every later step the
\* previous value is a prefix of the new one, so entries of earlier items are
\* never dropped, changed or reordered.
C33_ResultsAppendOnly == [][C33_ResultsGrow]_vars

C33_Witness ==
    /\ Len(steps) > 1
    /\ Len(state.processing_results) = 2
    /\ state.processing_results[1].status = "LOGGED"
    /\ state.processing_results[2].status = "FAILED"

C34_AfterStatsLookup ==
    StepDone("stats_lookup") =>
        LET range == state.start_date # None /\ state.end_date # None
        IN  /\ Len(calls') = 1
            /\ calls'[1].fn = IF range THEN "get_logs_by_date_range"
                               ELSE "get_logs_by_date"
            /\ calls'[1].args = IF range
                                 THEN <<state.start_date, state.end_date>>
                                 ELSE <<state.current_date>>
            /\ state'.daily_log_report = calls'[1].answer
            /\ [state' EXCEPT !.daily_log_report = <<>>]
                   = [state EXCEPT !.daily_log_report = <<>>]
            /\ daily_logs' = daily_logs

\* C34: the stats_lookup step issues exactly one query and changes only
\* daily_log_report: a range query with (start_date, end_date) when both
\* bounds are present, otherwise (also with one bound only) a single-date
\* query with current_date; daily_log_report becomes that query's rows in
\* the order returned.
C34_OneQueryIntoReport == [][C34_AfterStatsLookup]_vars

\* One bound only: the single date was asked, the old report was replaced
\* by the one matching row of a table of two.
C34_Witness ==
    /\ steps = <<"stats_lookup">>
    /\ state.start_date # None
    /\ state.end_date = None
    /\ Len(calls) = 1
    /\ calls[1].fn = "get_logs_by_date"
    /\ Len(daily_logs) = 2
    /\ Len(state.daily_log_report) = 1
    /\ state.daily_log_report[1] = daily_logs[2]
    /\ solo.daily_log_report = state.daily_log_report

C35_ContextOfReply ==
    StepDone("response") =>
        LET context == calls'[1].context
            keys == DOMAIN context
            action == state.last_action
        IN  /\ calls'[1].fn = "text_oracle"
            /\ "last_action" \in keys
            /\ context.last_action = action
            /\ action \in {"LOGGED", "FAILED", "NO_MATCH", "SELECTED"} =>
                   /\ keys = {"last_action", "processing_results"}
                   /\ context.processing_results = state.processing_results
            /\ action = "QUERY_DAILY_STATS" =>
                   /\ "daily_log_report" \in keys
                   /\ context.daily_log_report = state.daily_log_report
                   /\ "processing_results" \notin keys
                   /\ "start_date" \in keys <=> state.start_date # None
                   /\ "end_date" \in keys <=> state.end_date # None
                   /\ "start_date" \in keys =>
                          context.start_date = state.start_date
                   /\ "end_date" \in keys =>
                          context.end_date = state.end_date
            /\ action \notin {"LOGGED", "FAILED", "NO_MATCH", "SELECTED",
                               "QUERY_DAILY_STATS"} =>
                   keys = {"last_action"}

\* C35: the context the response step hands to the text oracle is scoped
\* by last_action: it always holds last_action; it holds processing_results
\* and no daily_log_report for LOGGED, FAILED, NO_MATCH and SELECTED; it
\* holds daily_log_report, the range bounds that are set and no
\* processing_results for QUERY_DAILY_STATS; for any other value it holds
\* neither.
C35_ContextScopedByAction == [][C35_ContextOfReply]_vars

\* A stats reply with one bound set: the outcomes in the state are left out.
C35_Witness ==
    /\ steps = <<"response">>
    /\ state.last_action = "QUERY_DAILY_STATS"
    /\ state.processing_results # <<>>
    /\ state.daily_log_report # <<>>
    /\ DOMAIN calls[1].context
           = {"last_action", "daily_log_report", "start_date"}

\* The record written two steps ago.
Before == checkpoints[Len(checkpoints) - 1].values

C36_LoopOrder ==
    /\ StepDone("agent_selection") =>
           /\ LastStep = "food_search"
           /\ state.pending_food_items # <<>>
           /\ Len(calls) = 1
           /\ calls[1].fn = "search_food"
           /\ calls[1].query = state.pending_food_items[1].food_name
           /\ calls[1].answer = state.search_results
    /\ StepDone("calculate_log") =>
           /\ LastStep = "agent_selection"
           /\ Len(steps) >= 2
           /\ steps[Len(steps) - 1] = "food_search"
           /\ Len(checkpoints) >= 2
           /\ Before.pending_food_items = state.pending_food_items
           /\ Before.search_results = state.search_results
           /\ state.selected_food_id # None
           /\ IF calls = <<>>
              THEN /\ Len(state.search_results) = 1
                   /\ state.selected_food_id = state.search_results[1].id
              ELSE /\ calls[1].fn = "selection_oracle"
                   /\ state.selected_food_id = calls[1].answer.food_id

\* C36: the steps of the item loop run in a fixed order for one head item:
\* calculate_log only runs right after an agent_selection step, which ran
\* right after the food_search step for the same head item, so the
\* selected_food_id calculate_log consumes was written by that selection
\* for that item and is never a stale id of an earlier item or turn.
C36_SearchSelectCalculate == [][C36_LoopOrder]_vars

C36_Witness ==
    /\ turn = MaxTurns
    /\ steps = <<"input_parser", "food_search", "agent_selection",
                 "calculate_log", "food_search", "agent_selection",
                 "calculate_log">>
    /\ Len(daily_logs) > base_logs + 1
    /\ daily_logs[Len(daily_logs)].food_id = "165"
    /\ state.selected_food_id = None

C37_AfterSelected ==
    (StepDone("agent_selection") /\ state'.last_action = "SELECTED") =>
        \E i \in DOMAIN state'.search_results :
            state'.search_results[i].id = state'.selected_food_id

\* C37: whenever the selection step yields last_action = SELECTED,
\* selected_food_id is the id of one of the candidates in search_results,
\* on the oracle path as well as on the single-candidate path.
C37_SelectedIsCandidate == [][C37_AfterSelected]_vars

\* The outcome entries recorded for item x.
EntriesOf(x) ==
    {k \in DOMAIN state.processing_results :
        /\ state.processing_results[k].food_name = x.food_name
        /\ state.processing_results[k].amount = x.amount
        /\ state.processing_results[k].original_text = x.original_text}

\* C38: at the end of every turn with a LOG_FOOD intent pending_food_items
\* is empty and every item the parser produced in the turn has exactly one
\* entry in processing_results, LOGGED or FAILED; a failed match of one
\* item does not leave later items unprocessed.
C38_LogTurnProcessesAll ==
    (pc = END /\ intent = "LOG_FOOD") =>
        /\ state.pending_food_items = <<>>
        /\ Len(state.processing_results) = Len(parsed)
        /\ \A k \in DOMAIN parsed :
               Cardinality(EntriesOf(parsed[k])) = Count(parsed, parsed[k])
        /\ \A k \in DOMAIN state.processing_results :
               state.processing_results[k].status \in {"LOGGED", "FAILED"}

C39_RowWritten == daily_logs' # daily_logs => intent = "LOG_FOOD"

\* C39: log rows are persisted only in turns whose parsed intent is
\* LOG_FOOD: a turn whose intent is QUERY_FOOD_INFO, QUERY_DAILY_STATS or
\* CHITCHAT never creates a log entry.
C39_RowsOnlyInLogTurns == [][C39_RowWritten]_vars

\* The single date of the turn: the target date the oracle supplied, which
\* the intent parser stores in current_date when no range is given.
C40_AfterLogWithDate ==
    (/\ StepDone("calculate_log")
     /\ intent = "LOG_FOOD"
     /\ state.start_date = None
     /\ state.end_date = None
     /\ state.current_date # None
     /\ Len(daily_logs') > Len(daily_logs))
    => daily_logs'[Len(daily_logs')].timestamp = state.current_date

\* C40: when the intent oracle supplies a target date together with a
\* LOG_FOOD intent, every row calculate_log persists in that turn is
\* timestamped on that target date, not on the date the turn is executed.
C40_RowsOnTargetDate == [][C40_AfterLogWithDate]_vars

====
